---- MODULE Spec2Model ----
(***************************************************************************)
(* Model of src/src/app1.py: the metadata worker (metadata_handler), the   *)
(* object store it reads and writes, and the batch of queue records it is  *)
(* invoked with.  One invocation of metadata_handler is a sequence of      *)
(* steps (parse, fetch, extract, probe, write per record, then return);    *)
(* the steps are the places where the handler talks to the store, so that  *)
(* several invocations can interleave at them.                             *)
(***************************************************************************)
EXTENDS Integers, Sequences, FiniteSets, TLC

(***************************************************************************)
(* Bounds of the model.                                                    *)
(***************************************************************************)
\* Longest batch (event['Records']) an invocation is given.
MaxBatch == 2

\* Longest chain of records of records (metadata/x.json, metadata/x.json.json, ...) the
\* store of the two-stage pipeline has keys for.
MaxDepth == 3

\* The invocations of metadata_handler the variables are indexed by.
Workers == {"w1", "w2"}

(***************************************************************************)
(* Buckets and keys.  A key is the sequence of its '/'-separated segments, *)
(* a segment the sequence of its '.'-separated components, so that         *)
(* incoming/test.png is << <<"incoming">>, <<"test", "png">> >>.           *)
(***************************************************************************)
Buckets == {"b1", "b2"}

K1 == << <<"incoming">>, <<"test", "png">> >>
K2 == << <<"archive">>, <<"2024">>, <<"test", "png">> >>

SourceKeys == {K1, K2}

\* The empty string as a key (falsy in Python).
EmptyKey == << >>

\* os.path.basename(key): what follows the last '/', the whole key when it has none.
Basename(key) == IF Len(key) = 0 THEN <<"">> ELSE key[Len(key)]

\* Mutant of MetadataKey: the extension is dropped (name, _ = os.path.splitext(base)).
MetadataKeySplitext(key) == << <<"metadata">>, Append(SubSeq(Basename(key), 1, Len(Basename(key)) - 1), "json") >>

\* f'metadata/{base}.json' with base = os.path.basename(key); the splitext line is commented out.
MetadataKey(key) == << <<"metadata">>, Append(Basename(key), "json") >>

MetadataKeys == {MetadataKey(k) : k \in SourceKeys}

\* The key tests/test_handlers.py reads the record of incoming/<name>.png from:
\* metadata/<name>.json, the base name without its extension.
TestKeys == {<< <<"metadata">>, <<"test", "json">> >>}

Keys == SourceKeys \cup MetadataKeys \cup TestKeys

(***************************************************************************)
(* Objects of the store.  A body is image bytes, bytes no decoder reads,   *)
(* or the UTF-8 text of a JSON value.                                      *)
(***************************************************************************)
NoObject == [exists |-> FALSE]

Q == "\""

\* The ETag header S3 returns for a version: the tag between double quotes.
ETagOf(tag) == <<Q, tag, Q>>

RECURSIVE LStrip(_)
LStrip(s) == IF Len(s) > 0 /\ Head(s) = Q THEN LStrip(Tail(s)) ELSE s

RECURSIVE RStrip(_)
RStrip(s) == IF Len(s) > 0 /\ s[Len(s)] = Q THEN RStrip(SubSeq(s, 1, Len(s) - 1)) ELSE s

\* str.strip('"'): every leading and trailing double quote removed.
StripQuotes(s) == RStrip(LStrip(s))

ImageBody(n, exif) == [kind |-> "image", len |-> n, format |-> "PNG", width |-> 1, height |-> 1, exif |-> exif]

CorruptBody(n) == [kind |-> "corrupt", len |-> n]

JsonObject(fields) == [type |-> "object", obj |-> fields]

JsonArray == [type |-> "array"]

\* json.dumps(value).encode('utf-8')
JsonDumps(value) == [kind |-> "json", value |-> value]

\* json.loads(body): the value, or the failure (ValueError) on text that is not JSON.
JsonLoads(body) == IF body.kind = "json" THEN [ok |-> TRUE, value |-> body.value] ELSE [ok |-> FALSE]

\* dict.get(name): None is [some |-> FALSE].
Get(value, name) == IF name \in DOMAIN value.obj THEN [some |-> TRUE, val |-> value.obj[name]] ELSE [some |-> FALSE]

\* Python's `not x` for x = None or the empty value of its type.
Falsy(opt, empty) == ~opt.some \/ opt.val = empty

Object(body, tag, ctype) == [exists |-> TRUE, body |-> body, etag |-> ETagOf(tag), ctype |-> ctype]

\* The two versions of a source object: an image, and the larger image with embedded
\* tags that replaces it (another content, so another fingerprint).
SourceV1 == Object(ImageBody(69, "none"), "v1", "image/png")

SourceV2 == Object(ImageBody(70, "tags"), "v2", "image/png")

\* What incoming/test.png of bucket b1 may be at the start: an image, or bytes that are none.
InitSources == {SourceV1, Object(CorruptBody(5), "c1", "image/png")}

\* A record an earlier invocation of the worker left behind, for source tag t, written
\* when PIL was missing.
OldRecord(t) == Object(JsonDumps(JsonObject([source_bucket |-> "b1", source_key |-> K1, file_size_bytes |-> 69, error |-> "Pillow not available for image parsing", source_etag |-> <<t>>])), "m", "application/json")

\* What a metadata key may hold at the start: nothing, an earlier record (stale or
\* current), or an object that someone else put there and that is no record.
InitDerived == {NoObject, OldRecord("v0"), OldRecord("v1"), Object(CorruptBody(5), "g", "binary/octet-stream")}

(***************************************************************************)
(* Queue records.  A record's body is absent or empty, text that is not    *)
(* JSON, or the text of a JSON value.                                      *)
(***************************************************************************)
NoBody == [kind |-> "none"]

Message(b, k) == JsonDumps(JsonObject([bucket |-> b, key |-> k]))

ValidBodies == {Message("b1", K1), Message("b1", K2), Message("b2", K1)}

MalformedBodies == {NoBody, [kind |-> "text"], JsonDumps(JsonArray), JsonDumps(JsonObject([bucket |-> "b1", key |-> EmptyKey])), JsonDumps(JsonObject([key |-> K1]))}

Bodies == ValidBodies \cup MalformedBodies

Batches == UNION {[1..n -> Bodies] : n \in 0..MaxBatch}

(***************************************************************************)
(* State.                                                                  *)
(***************************************************************************)
VARIABLES
  store,        \* [bucket, key] -> the object there, or NoObject
  pillow,       \* whether the import of PIL succeeded (Image is not None)
  calls,        \* every call made on the store client, in order
  event,        \* per invocation: the bodies of event['Records']
  pc,           \* per invocation: the step it is at
  idx,          \* per invocation: the position of `rec` in the batch
  processed,    \* per invocation: the local `processed`
  loc,          \* per invocation: the locals of the loop body
  outcome,      \* per invocation: how the handling of each record ended
  result,       \* per invocation: the value returned, once returned
  environ,      \* os.environ: the four variables that name the queue
  ingest,       \* the invocation of ingest_handler: its event, position and locals
  sends,        \* every call of send_message made on the queue client, in order
  queue,        \* the messages in the queue, not yet delivered to metadata_handler
  notifications \* the object-created notifications not yet given to ingest_handler

vars == <<store, pillow, calls, event, pc, idx, processed, loc, outcome, result, environ, ingest, sends, queue, notifications>>

\* The state of the dispatch stage and of what links the two stages.
dvars == <<environ, ingest, sends, queue, notifications>>

\* The loop body's locals before a record is handled.
NoLocals == [bucket |-> "", key |-> EmptyKey, data |-> NoBody, filesize |-> 0, source_etag |-> << >>, meta |-> << >>, metadata_key |-> EmptyKey]

NoResult == [statusCode |-> 0, processed |-> 0]

\* Where the for loop goes once record i is dealt with.
AfterRecord(w, i) == IF i < Len(event[w]) THEN "parse" ELSE "return"

\* The store at the start.  Bucket b1: incoming/test.png, the other source key with the
\* same image or nothing, and whatever is at their metadata key.  Bucket b2: one image.
InitStores == {[c \in Buckets \X Keys |-> CASE c = <<"b1", K1>> -> s1 [] c = <<"b1", K2>> -> s2 [] c = <<"b1", MetadataKey(K1)>> -> d [] c = <<"b2", K1>> -> SourceV1 [] OTHER -> NoObject] : s1 \in InitSources, s2 \in {NoObject, SourceV1}, d \in InitDerived}

\* The state at the call metadata_handler(event, context) of each invocation in `active`.
InitWith(active) ==
  /\ store \in InitStores
  /\ pillow \in BOOLEAN
  /\ calls = << >>
  /\ event \in {[w \in Workers |-> IF w \in active THEN e[w] ELSE << >>] : e \in [active -> Batches]}
  /\ pc = [w \in Workers |-> IF w \in active THEN AfterRecord(w, 0) ELSE "idle"]
  /\ idx = [w \in Workers |-> 1]
  /\ processed = [w \in Workers |-> 0]
  /\ loc = [w \in Workers |-> NoLocals]
  /\ outcome = [w \in Workers |-> << >>]
  /\ result = [w \in Workers |-> NoResult]

\* No queue is configured.
NoEnviron == [METADATA_QUEUE_URL |-> "", SQS_QUEUE_URL |-> "", METADATA_QUEUE_NAME |-> "", SQS_QUEUE_NAME |-> ""]

\* ingest_handler has not been invoked.
NoIngest == [pc |-> "idle", event |-> << >>, i |-> 1, sent |-> 0, queue_url |-> "", error |-> "", messages_sent |-> 0, statusCode |-> 0]

\* The dispatch stage takes no part: metadata_handler is invoked on its batch directly.
NoDispatch ==
  /\ environ = NoEnviron
  /\ ingest = NoIngest
  /\ sends = << >>
  /\ queue = << >>
  /\ notifications = << >>

\* One invocation, handling its batch alone.
Init == InitWith({"w1"}) /\ NoDispatch

(***************************************************************************)
(* The store client.  A call succeeds, fails with botocore's ClientError   *)
(* (the service answered with an error: no such key, access denied,        *)
(* throttled), or fails with another exception (no answer: connection or   *)
(* read timeout, a parameter the client rejects).                          *)
(***************************************************************************)
Faults == {"none", "ClientError", "OtherError"}

\* How get_object(Bucket=b, Key=k) followed by Body.read() ends.
GetOutcome(fault, b, k) == IF fault # "none" THEN fault ELSE IF store[<<b, k>>].exists THEN "ok" ELSE "ClientError"

\* How put_object ends.
PutOutcome(fault) == IF fault = "none" THEN "ok" ELSE fault

\* An entry of the log of store calls: who called, for which record, what, the failure
\* the call met ("none": the store answered as its content says) and how it ended;
\* `obj` is the object a get returned or a put sent.
Call(w, op, b, k, fault, out, obj) == [w |-> w, rec |-> idx[w], op |-> op, Bucket |-> b, Key |-> k, fault |-> fault, outcome |-> out, obj |-> obj]

(***************************************************************************)
(* The pieces of the loop body of metadata_handler.                        *)
(***************************************************************************)
\* len(data).  An image carries its byte length; the text of a record is measured by
\* the fields it holds (its characters are not modelled).
BodyLen(body) == IF body.kind = "json" THEN Cardinality(DOMAIN body.value.obj) ELSE body.len

\* obj.get('ETag', '').strip('"')
SourceEtag(obj) == StripQuotes(obj.etag)

\* Mutant of Extract: the byte length is recorded on the path where decoding succeeds only.
ExtractSizeOnSuccess(b, k, data, filesize) ==
  IF pillow /\ data.kind = "image"
  THEN [source_bucket |-> b, source_key |-> k, file_size_bytes |-> filesize, format |-> data.format, width |-> data.width, height |-> data.height]
  ELSE [source_bucket |-> b, source_key |-> k]

\* Mutant of Extract: the record names its source in fields bucket and key.
ExtractTestFields(b, k, data, filesize) == [bucket |-> b, key |-> k, file_size_bytes |-> filesize]

\* The record as first built, and what decoding adds to it: the error marker when PIL
\* is missing; format and size, then the tags, as far as decoding gets.
Extract(b, k, data, filesize) ==
  LET meta == [source_bucket |-> b, source_key |-> k, file_size_bytes |-> filesize]
  IN  IF ~pillow THEN meta @@ [error |-> "Pillow not available for image parsing"]
      ELSE IF data.kind # "image" THEN meta
      ELSE IF data.exif = "tags" THEN meta @@ [format |-> data.format, width |-> data.width, height |-> data.height, exif |-> "tags"]
      ELSE meta @@ [format |-> data.format, width |-> data.width, height |-> data.height]

\* Mutant of EtagMatches: the comparison never succeeds, so every run writes.
EtagNeverMatches(existing_meta, source_etag) == FALSE

\* Mutant of EtagMatches: any record that has a fingerprint is taken for current.
EtagOfAnyRecord(existing_meta, source_etag) == Get(existing_meta, "source_etag").some

\* existing_meta.get('source_etag') == source_etag
EtagMatches(existing_meta, source_etag) == LET e == Get(existing_meta, "source_etag") IN e.some /\ e.val = source_etag

\* Mutant of WithEtag: the fingerprint is not attached.
WithEtagDropped(meta, source_etag) == meta

\* meta['source_etag'] = source_etag
WithEtag(meta, source_etag) == [source_etag |-> source_etag] @@ meta

\* The ContentType of the put.
PutContentType == "application/json"

\* Mutant of PutTarget: the put goes to the source key.
PutTargetSource(l) == <<l.bucket, l.key>>

\* Where the put goes: Bucket=bucket, Key=metadata_key.
PutTarget(l) == <<l.bucket, l.metadata_key>>

\* The object a successful put leaves in the store.
PutObject(meta) == Object(JsonDumps(JsonObject(meta)), "m", PutContentType)

\* Mutant of Stored: the put is merged into the record the key held (fields of the old
\* record that the new one lacks are kept).
StoredMerged(old, new) ==
  IF old.exists /\ old.body.kind = "json" /\ old.body.value.type = "object"
  THEN [new EXCEPT !.body = JsonDumps(JsonObject(new.body.value.obj @@ old.body.value.obj))]
  ELSE new

\* What the key holds after put_object: the object sent, whatever the key held before.
Stored(old, new) == new

\* Mutant of Count: a failed write is counted too.
CountFailedWrite(n, how) == IF how \in {"current", "written", "write_failed"} THEN n + 1 ELSE n

\* processed after a record whose handling ended as `how`: += 1 on the two paths that count.
Count(n, how) == IF how \in {"current", "written"} THEN n + 1 ELSE n

\* The handling of the current record ends as `how` and the loop goes on; `rec` is what
\* the record's metadata key holds at that point (NoObject when no key was derived);
\* `outcome` keeps both, with the value of `processed`, for each record of the batch.
Continue(w, how, rec) ==
  /\ outcome' = [outcome EXCEPT ![w] = Append(@, [end |-> how, record |-> rec, count |-> Count(processed[w], how)])]
  /\ processed' = [processed EXCEPT ![w] = Count(@, how)]
  /\ pc' = [pc EXCEPT ![w] = AfterRecord(w, idx[w])]
  /\ idx' = [idx EXCEPT ![w] = @ + 1]
  /\ loc' = [loc EXCEPT ![w] = NoLocals]
  /\ UNCHANGED <<event, result>>

\* An exception no except clause catches leaves metadata_handler: the invocation ends
\* without a result.
Raise(w, how) ==
  /\ outcome' = [outcome EXCEPT ![w] = Append(@, [end |-> how, record |-> NoObject, count |-> processed[w]])]
  /\ pc' = [pc EXCEPT ![w] = "raised"]
  /\ UNCHANGED <<event, result, processed, idx, loc>>

\* The loop body goes on to its next step with locals l.
Goto(w, step, l) ==
  /\ pc' = [pc EXCEPT ![w] = step]
  /\ loc' = [loc EXCEPT ![w] = l]
  /\ UNCHANGED <<event, result, processed, idx, outcome>>

(***************************************************************************)
(* The steps of metadata_handler.                                          *)
(***************************************************************************)
\* Lines 105-119: the body is read, parsed and checked for bucket and key.
ParseStep(w) ==
  /\ pc[w] = "parse"
  /\ UNCHANGED <<store, pillow, calls>>
  /\ LET body == event[w][idx[w]]
         msg == JsonLoads(body)
     IN  IF body.kind = "none" THEN Continue(w, "no_body", NoObject)
         ELSE IF ~msg.ok THEN Continue(w, "bad_json", NoObject)
         ELSE IF msg.value.type # "object" THEN Raise(w, "AttributeError")
         ELSE LET bucket == Get(msg.value, "bucket")
                  key == Get(msg.value, "key")
              IN  IF Falsy(bucket, "") \/ Falsy(key, EmptyKey) THEN Continue(w, "missing_field", NoObject)
                  ELSE Goto(w, "fetch", [NoLocals EXCEPT !.bucket = bucket.val, !.key = key.val])

\* Lines 121-128: the source object is fetched and read.
FetchStep(w) ==
  /\ pc[w] = "fetch"
  /\ UNCHANGED <<store, pillow>>
  /\ \E fault \in Faults :
       LET l == loc[w]
           out == GetOutcome(fault, l.bucket, l.key)
           obj == IF out = "ok" THEN store[<<l.bucket, l.key>>] ELSE NoObject
       IN  /\ calls' = Append(calls, Call(w, "get", l.bucket, l.key, fault, out, obj))
           /\ CASE out = "ok" -> Goto(w, "extract", [l EXCEPT !.data = obj.body, !.filesize = BodyLen(obj.body), !.source_etag = SourceEtag(obj)])
                [] out = "ClientError" -> Continue(w, "fetch_failed", NoObject)
                [] OTHER -> Raise(w, "fetch_raised")

\* Lines 130-152: the record is built and the metadata key derived; no store call.
ExtractStep(w) ==
  /\ pc[w] = "extract"
  /\ UNCHANGED <<store, pillow, calls>>
  /\ LET l == loc[w]
     IN  Goto(w, "probe", [l EXCEPT !.meta = Extract(l.bucket, l.key, l.data, l.filesize), !.metadata_key = MetadataKey(l.key)])

\* Lines 154-164: the existing record is read and its fingerprint compared.
ProbeStep(w) ==
  /\ pc[w] = "probe"
  /\ UNCHANGED <<store, pillow>>
  /\ \E fault \in Faults :
       LET l == loc[w]
           out == GetOutcome(fault, l.bucket, l.metadata_key)
           obj == IF out = "ok" THEN store[<<l.bucket, l.metadata_key>>] ELSE NoObject
           existing_meta == JsonLoads(obj.body)
       IN  /\ calls' = Append(calls, Call(w, "get", l.bucket, l.metadata_key, fault, out, obj))
           /\ CASE out = "ClientError" -> Goto(w, "write", l)
                [] out = "OtherError" -> Raise(w, "probe_raised")
                [] OTHER -> IF ~existing_meta.ok THEN Raise(w, "ValueError")
                            ELSE IF existing_meta.value.type # "object" THEN Raise(w, "AttributeError")
                            ELSE IF EtagMatches(existing_meta.value, l.source_etag) THEN Continue(w, "current", obj)
                            ELSE Goto(w, "write", l)

\* Lines 166-174: the fingerprint is attached and the record put.
WriteStep(w) ==
  /\ pc[w] = "write"
  /\ UNCHANGED pillow
  /\ \E fault \in Faults :
       LET l == loc[w]
           meta == WithEtag(l.meta, l.source_etag)
           out == PutOutcome(fault)
           obj == PutObject(meta)
           at == PutTarget(l)
       IN  /\ calls' = Append(calls, Call(w, "put", at[1], at[2], fault, out, obj))
           /\ IF out = "ok"
              THEN /\ store' = [store EXCEPT ![at] = Stored(@, obj)]
                   /\ Continue(w, "written", store'[<<l.bucket, l.metadata_key>>])
              ELSE /\ store' = store
                   /\ Continue(w, "write_failed", store[<<l.bucket, l.metadata_key>>])

\* Line 176: the result.
ReturnStep(w) ==
  /\ pc[w] = "return"
  /\ result' = [result EXCEPT ![w] = [statusCode |-> 200, processed |-> processed[w]]]
  /\ pc' = [pc EXCEPT ![w] = "done"]
  /\ UNCHANGED <<store, pillow, calls, event, idx, processed, loc, outcome>>

(***************************************************************************)
(* The environment: incoming/test.png of bucket b1 is overwritten with its *)
(* next version while a record that names it is handled, before the fetch  *)
(* or after it (the handler reads the source nowhere else).                *)
(***************************************************************************)
Overwrite ==
  /\ \E w \in Workers : pc[w] \in {"fetch", "write"} /\ loc[w].bucket = "b1" /\ loc[w].key = K1
  /\ store[<<"b1", K1>>] = SourceV1
  /\ store' = [store EXCEPT ![<<"b1", K1>>] = SourceV2]
  /\ UNCHANGED <<pillow, calls, event, pc, idx, processed, loc, outcome, result>>

Next ==
  \/ \E w \in Workers : ParseStep(w) /\ UNCHANGED dvars
  \/ \E w \in Workers : FetchStep(w) /\ UNCHANGED dvars
  \/ \E w \in Workers : ExtractStep(w) /\ UNCHANGED dvars
  \/ \E w \in Workers : ProbeStep(w) /\ UNCHANGED dvars
  \/ \E w \in Workers : WriteStep(w) /\ UNCHANGED dvars
  \/ \E w \in Workers : ReturnStep(w) /\ UNCHANGED dvars
  \/ Overwrite /\ UNCHANGED dvars

Spec == Init /\ [][Next]_vars

(***************************************************************************)
(* Two invocations at once: the queue delivered the same message to each   *)
(* (a duplicate delivery, or the two notifications of two versions of one  *)
(* object, which carry the same bucket and key).  Their steps interleave   *)
(* at will.                                                                *)
(***************************************************************************)
InitRace ==
  \E m \in ValidBodies :
    /\ event = [w \in Workers |-> <<m>>]
    /\ InitWith(Workers)
    /\ NoDispatch

SpecRace == InitRace /\ [][Next]_vars

(***************************************************************************)
(* Redelivery.  The queue hands a message to the handler again as long as  *)
(* it has not been counted as processed: after an invocation that returned *)
(* a count smaller than its batch, or that ended with an exception, a new  *)
(* invocation starts on the same batch, and the log of store calls starts  *)
(* again with it.  The source object does not change meanwhile.            *)
(***************************************************************************)
Redeliver(w) ==
  /\ pc[w] \in {"done", "raised"}
  /\ pc[w] = "done" => result[w].processed < Len(event[w])
  /\ pc' = [pc EXCEPT ![w] = AfterRecord(w, 0)]
  /\ idx' = [idx EXCEPT ![w] = 1]
  /\ processed' = [processed EXCEPT ![w] = 0]
  /\ loc' = [loc EXCEPT ![w] = NoLocals]
  /\ outcome' = [outcome EXCEPT ![w] = << >>]
  /\ result' = [result EXCEPT ![w] = NoResult]
  /\ calls' = << >>
  /\ UNCHANGED <<store, pillow, event>>
  /\ UNCHANGED dvars

\* One invocation at a time, given the one message for incoming/test.png of bucket b1.
InitRedelivery ==
  /\ event = [w \in Workers |-> IF w = "w1" THEN <<Message("b1", K1)>> ELSE << >>]
  /\ InitWith({"w1"})
  /\ NoDispatch

\* A step of invocation w of metadata_handler; the dispatch stage is not involved.
WorkerStep(w) ==
  /\ ParseStep(w) \/ FetchStep(w) \/ ExtractStep(w) \/ ProbeStep(w) \/ WriteStep(w) \/ ReturnStep(w)
  /\ UNCHANGED dvars

NextRedelivery ==
  \/ \E w \in Workers : ParseStep(w) /\ UNCHANGED dvars
  \/ \E w \in Workers : FetchStep(w) /\ UNCHANGED dvars
  \/ \E w \in Workers : ExtractStep(w) /\ UNCHANGED dvars
  \/ \E w \in Workers : ProbeStep(w) /\ UNCHANGED dvars
  \/ \E w \in Workers : WriteStep(w) /\ UNCHANGED dvars
  \/ \E w \in Workers : ReturnStep(w) /\ UNCHANGED dvars
  \/ \E w \in Workers : Redeliver(w)

\* An invocation that can take a step takes it (the handler runs to its end), and a
\* message that is not counted is delivered again.
FairRedelivery ==
  \A w \in Workers :
    /\ WF_vars(WorkerStep(w))
    /\ WF_vars(Redeliver(w))

SpecRedelivery == InitRedelivery /\ [][NextRedelivery]_vars /\ FairRedelivery

(***************************************************************************)
(* The dispatch stage: ingest_handler, given a batch of object-created     *)
(* notifications, sends one queue message per notification.  A record of   *)
(* the event is a JSON object; the fields the handler reads are s3 (an     *)
(* object or null), s3.bucket.name and s3.object.key.                      *)
(***************************************************************************)
\* The worker's variables, which no step of ingest_handler touches.
wvars == <<store, pillow, calls, event, pc, idx, processed, loc, outcome, result>>

JsonNull == [type |-> "null"]

\* A key as S3 writes it in a notification: URL-encoded, a space as '+'.
KPlus == << <<"incoming">>, <<"my+photo", "png">> >>

\* urllib.parse.unquote_plus on one component of a key: '+' and %20 are a space.
UnquoteComponent(c) == CASE c = "my+photo" -> "my photo" [] c = "my%20photo" -> "my photo" [] OTHER -> c

\* unquote_plus(key)
UnquotePlus(key) == [s \in DOMAIN key |-> [c \in DOMAIN key[s] |-> UnquoteComponent(key[s][c])]]

\* The record S3 gives for object key of bucket b.
Notification(b, key) == [s3 |-> JsonObject([bucket |-> [name |-> b], object |-> [key |-> key]])]

ValidNotifications == {Notification("b1", K1), Notification("b2", K1), Notification("b1", KPlus)}

\* Records that lack the bucket or the key: no s3 field, s3 null, no bucket, a bucket
\* without name, an empty name, no object, an empty key.
InvalidNotifications == {
  [eventName |-> "ObjectCreated:Put"],
  [s3 |-> JsonNull],
  [s3 |-> JsonObject([object |-> [key |-> K1]])],
  [s3 |-> JsonObject([bucket |-> [arn |-> "arn:aws:s3:::b1"], object |-> [key |-> K1]])],
  [s3 |-> JsonObject([bucket |-> [name |-> ""], object |-> [key |-> K1]])],
  [s3 |-> JsonObject([bucket |-> [name |-> "b1"]])],
  [s3 |-> JsonObject([bucket |-> [name |-> "b1"], object |-> [key |-> EmptyKey]])]}

AllNotifications == ValidNotifications \cup InvalidNotifications

NotificationBatches == UNION {[1..n -> AllNotifications] : n \in 0..MaxBatch}

\* The settings of the four environment variables: each unset (or empty) or set.
Environs == [METADATA_QUEUE_URL : {"", "mock-queue-url"}, SQS_QUEUE_URL : {"", "other-queue-url"}, METADATA_QUEUE_NAME : {"", "metadata-queue"}, SQS_QUEUE_NAME : {"", "other-queue"}]

\* Mutant of Either: the second variable is never consulted.
EitherFirst(a, b) == a

\* a or b, for two strings of which None and '' are falsy.
Either(a, b) == IF a # "" THEN a ELSE b

\* sqs_client.get_queue_url(QueueName=name)['QueueUrl']
LookedUp(name) == "https://queue.amazonaws.com/" \o name

\* How a call on the queue client may end: it returns, or raises.
QueueFaults == {"none", "Error"}

\* rec.get('s3') or {}
S3Of(rec) == IF "s3" \in DOMAIN rec /\ rec.s3.type = "object" THEN rec.s3.obj ELSE << >>

\* s3.get('bucket', {}).get('name')
BucketOf(s3) == IF "bucket" \in DOMAIN s3 /\ "name" \in DOMAIN s3.bucket THEN [some |-> TRUE, val |-> s3.bucket.name] ELSE [some |-> FALSE]

\* s3.get('object', {}).get('key')
KeyOf(s3) == IF "object" \in DOMAIN s3 /\ "key" \in DOMAIN s3.object THEN [some |-> TRUE, val |-> s3.object.key] ELSE [some |-> FALSE]

\* Where the for loop of ingest_handler goes once record i is dealt with.
AfterNotification(i) == IF i < Len(ingest.event) THEN "loop" ELSE "return"

\* Mutant of Sent: a send that raised is counted too.
SentAlways(n, out) == n + 1

\* sent after a send_message that ended as out: += 1 when it returned.
Sent(n, out) == IF out = "ok" THEN n + 1 ELSE n

\* Lines 45-54 with _resolve_queue_url (27-36): the queue URL is taken from the
\* environment, or looked up by name, or the handler raises; then the loop starts.
IngestResolve ==
  /\ ingest.pc = "resolve"
  /\ UNCHANGED <<environ, sends, queue, notifications>>
  /\ UNCHANGED wvars
  /\ LET url == Either(environ.METADATA_QUEUE_URL, environ.SQS_QUEUE_URL)
         name == Either(environ.METADATA_QUEUE_NAME, environ.SQS_QUEUE_NAME)
     IN  IF url # "" THEN ingest' = [ingest EXCEPT !.queue_url = url, !.pc = AfterNotification(0)]
         ELSE IF name # ""
              THEN \E fault \in QueueFaults :
                     IF fault = "none"
                     THEN ingest' = [ingest EXCEPT !.queue_url = LookedUp(name), !.pc = AfterNotification(0)]
                     ELSE ingest' = [ingest EXCEPT !.pc = "raised", !.error = "get_queue_url"]
              ELSE ingest' = [ingest EXCEPT !.pc = "raised", !.error = "RuntimeError"]

\* Lines 55-71: one turn of the loop.  A record without bucket or key is skipped; for
\* the others the message is sent, and counted when send_message returns.
IngestRecord ==
  /\ ingest.pc = "loop"
  /\ UNCHANGED <<environ, notifications>>
  /\ UNCHANGED wvars
  /\ LET rec == ingest.event[ingest.i]
         s3 == S3Of(rec)
         bucket == BucketOf(s3)
         key == KeyOf(s3)
         next == [ingest EXCEPT !.i = @ + 1, !.pc = AfterNotification(ingest.i)]
     IN  IF Falsy(bucket, "") \/ Falsy(key, EmptyKey)
         THEN ingest' = next /\ UNCHANGED <<sends, queue>>
         ELSE \E fault \in QueueFaults :
                LET out == IF fault = "none" THEN "ok" ELSE fault
                    body == Message(bucket.val, UnquotePlus(key.val))
                IN  /\ sends' = Append(sends, [rec |-> ingest.i, QueueUrl |-> ingest.queue_url, MessageBody |-> body, outcome |-> out])
                    /\ queue' = IF out = "ok" THEN Append(queue, body) ELSE queue
                    /\ ingest' = [next EXCEPT !.sent = Sent(@, out)]

\* Line 73: the result.
IngestReturn ==
  /\ ingest.pc = "return"
  /\ ingest' = [ingest EXCEPT !.pc = "done", !.statusCode = 200, !.messages_sent = ingest.sent]
  /\ UNCHANGED <<environ, sends, queue, notifications>>
  /\ UNCHANGED wvars

\* A store in which incoming/test.png of bucket b1 has just been uploaded.
UploadStore == [c \in Buckets \X Keys |-> IF c \in {<<"b1", K1>>, <<"b2", K1>>} THEN SourceV1 ELSE NoObject]

\* ingest_handler is invoked with a batch of notifications, under some environment; no
\* invocation of metadata_handler is under way.
InitIngest ==
  /\ store = UploadStore
  /\ pillow = TRUE
  /\ InitWith({})
  /\ environ \in Environs
  /\ ingest \in {[NoIngest EXCEPT !.pc = "resolve", !.event = e] : e \in NotificationBatches}
  /\ sends = << >>
  /\ queue = << >>
  /\ notifications = << >>

NextIngest == IngestResolve \/ IngestRecord \/ IngestReturn

SpecIngest == InitIngest /\ [][NextIngest]_vars

(***************************************************************************)
(* The two stages together.  incoming/test.png is uploaded to bucket b1;   *)
(* every object created in the bucket yields a notification, which         *)
(* ingest_handler forwards to the queue, and the queue delivers each       *)
(* message, alone, to an invocation of metadata_handler.  The record an    *)
(* invocation puts is an object created in the bucket as well.             *)
(***************************************************************************)
\* The key of the upload (n = 0) and of the record of the object at RecordKeyAt(n - 1).
RECURSIVE RecordKeyAt(_)
RecordKeyAt(n) == IF n = 0 THEN K1 ELSE MetadataKey(RecordKeyAt(n - 1))

PipelineKeys == {RecordKeyAt(n) : n \in 0..MaxDepth}

\* How many records lie between the upload and the object at key.
Depth(key) == CHOOSE n \in 0..MaxDepth : RecordKeyAt(n) = key

\* The environment the tests set: the queue URL is configured.
PipelineEnviron == [NoEnviron EXCEPT !.METADATA_QUEUE_URL = "mock-queue-url"]

\* The upload has just happened: its notification is pending, nothing else is.
InitPipeline ==
  /\ store = [c \in {"b1"} \X PipelineKeys |-> IF c = <<"b1", K1>> THEN SourceV1 ELSE NoObject]
  /\ pillow \in BOOLEAN
  /\ calls = << >>
  /\ event = [w \in Workers |-> << >>]
  /\ pc = [w \in Workers |-> "idle"]
  /\ idx = [w \in Workers |-> 1]
  /\ processed = [w \in Workers |-> 0]
  /\ loc = [w \in Workers |-> NoLocals]
  /\ outcome = [w \in Workers |-> << >>]
  /\ result = [w \in Workers |-> NoResult]
  /\ environ = PipelineEnviron
  /\ ingest = NoIngest
  /\ sends = << >>
  /\ queue = << >>
  /\ notifications = <<Notification("b1", K1)>>

\* The pending notifications are given, as one batch, to an invocation of
\* ingest_handler (lines 39-44), once the one before it has ended.
IngestInvoke ==
  /\ ingest.pc \in {"idle", "done", "raised"}
  /\ notifications # << >>
  /\ ingest' = [NoIngest EXCEPT !.pc = "resolve", !.event = notifications]
  /\ notifications' = << >>
  /\ UNCHANGED <<environ, sends, queue>>
  /\ UNCHANGED wvars

\* The queue delivers its first message to an invocation of metadata_handler that is
\* not running (lines 92-104): a batch of one.
Deliver(w) ==
  /\ pc[w] \in {"idle", "done", "raised"}
  /\ queue # << >>
  /\ event' = [event EXCEPT ![w] = <<Head(queue)>>]
  /\ queue' = Tail(queue)
  /\ pc' = [pc EXCEPT ![w] = "parse"]
  /\ idx' = [idx EXCEPT ![w] = 1]
  /\ processed' = [processed EXCEPT ![w] = 0]
  /\ loc' = [loc EXCEPT ![w] = NoLocals]
  /\ outcome' = [outcome EXCEPT ![w] = << >>]
  /\ result' = [result EXCEPT ![w] = NoResult]
  /\ UNCHANGED <<store, pillow, calls, environ, ingest, sends, notifications>>

\* The write of metadata_handler in the pipeline: the record a successful put creates
\* yields a notification, as long as the store has a key for the record of that record.
PipelineWrite(w) ==
  /\ WriteStep(w)
  /\ LET put == calls'[Len(calls')]
     IN  notifications' = IF put.outcome = "ok" /\ Depth(put.Key) < MaxDepth
                          THEN Append(notifications, Notification(put.Bucket, put.Key))
                          ELSE notifications
  /\ UNCHANGED <<environ, ingest, sends, queue>>

NextPipeline ==
  \/ IngestInvoke
  \/ IngestResolve
  \/ IngestRecord
  \/ IngestReturn
  \/ \E w \in Workers : Deliver(w)
  \/ \E w \in Workers : ParseStep(w) /\ UNCHANGED dvars
  \/ \E w \in Workers : FetchStep(w) /\ UNCHANGED dvars
  \/ \E w \in Workers : ExtractStep(w) /\ UNCHANGED dvars
  \/ \E w \in Workers : ProbeStep(w) /\ UNCHANGED dvars
  \/ \E w \in Workers : PipelineWrite(w)
  \/ \E w \in Workers : ReturnStep(w) /\ UNCHANGED dvars

SpecPipeline == InitPipeline /\ [][NextPipeline]_vars

(***************************************************************************)
(* What the properties read off a run.                                     *)
(***************************************************************************)
\* The store calls invocation w made for record i, in order.
CallsOf(w, i) == SelectSeq(calls, LAMBDA c : c.w = w /\ c.rec = i)

\* Record i of w's batch has been dealt with (skipped, counted, or left by an exception).
Handled(w, i) == i <= Len(outcome[w])

\* The message a well-formed body carries.
MsgOf(body) == body.value.obj

WellFormed(body) == body \in ValidBodies

\* The object the source fetch for record i returned, NoObject when it returned none.
Fetched(w, i) == LET cs == CallsOf(w, i) IN IF Len(cs) > 0 /\ cs[1].outcome = "ok" THEN cs[1].obj ELSE NoObject

\* The probe for record i: the second store call made for it.
Probed(w, i) == Len(CallsOf(w, i)) >= 2

ProbeOf(w, i) == CallsOf(w, i)[2]

\* The puts made for record i.
PutsOf(w, i) == SelectSeq(CallsOf(w, i), LAMBDA c : c.op = "put")

\* obj is a record that carries fingerprint e.
IsRecordFor(obj, e) == /\ obj.exists
                       /\ obj.body.kind = "json"
                       /\ obj.body.value.type = "object"
                       /\ "source_etag" \in DOMAIN obj.body.value.obj
                       /\ obj.body.value.obj.source_etag = e

\* The fingerprint of an object: its ETag without the quotes around it.
Fingerprint(obj) == SubSeq(obj.etag, 2, Len(obj.etag) - 1)

\* processed before record i was handled.
CountBefore(w, i) == IF i = 1 THEN 0 ELSE outcome[w][i - 1].count

Counted(w, i) == outcome[w][i].count = CountBefore(w, i) + 1

\* obj can be read as a record: the text of a JSON object.
IsRecord(obj) == obj.exists /\ obj.body.kind = "json" /\ obj.body.value.type = "object"

\* The handling of record i is what an exception left metadata_handler from.
RaisedAt(w, i) == pc[w] = "raised" /\ i = Len(outcome[w])

\* No call made for record i met a failure of the store.
NoFault(w, i) == \A n \in 1..Len(CallsOf(w, i)) : CallsOf(w, i)[n].fault = "none"

\* A put for record i succeeded.
SuccessfulPut(w, i) == \E n \in 1..Len(PutsOf(w, i)) : PutsOf(w, i)[n].outcome = "ok"

\* The probe for record i returned a record carrying the fingerprint of the source just
\* fetched, and nothing was put.
MatchSkip(w, i) == /\ Len(PutsOf(w, i)) = 0
                   /\ Probed(w, i)
                   /\ Fetched(w, i).exists
                   /\ IsRecordFor(ProbeOf(w, i).obj, Fingerprint(Fetched(w, i)))

\* The probe for record i found nothing or a record, and none that is current.
ProbeFoundNoCurrent(w, i) == /\ Probed(w, i)
                             /\ ProbeOf(w, i).outcome = "ClientError" \/ IsRecord(ProbeOf(w, i).obj)
                             /\ ~IsRecordFor(ProbeOf(w, i).obj, Fingerprint(Fetched(w, i)))

(***************************************************************************)
(* C1.  Error isolation: whatever goes wrong while record i is handled     *)
(* (body not JSON, JSON without bucket/key, failed fetch, failed probe,    *)
(* existing object that is no record, failed write), every later record is *)
(* still handled and metadata_handler returns its status-200 result: no    *)
(* invocation ends with an exception, and one that returned dealt with     *)
(* every record of its batch.                                              *)
(***************************************************************************)
C1_ErrorIsolation ==
  \A w \in Workers :
    /\ pc[w] # "raised"
    /\ pc[w] = "done" => result[w].statusCode = 200 /\ Len(outcome[w]) = Len(event[w])

\* Records i and i + 1 are the same message, handled one after the other against the
\* same source object, with no failed store call, the first not finding a current record.
C2_TwiceUnchanged(w, i) ==
  /\ Handled(w, i + 1)
  /\ WellFormed(event[w][i])
  /\ event[w][i + 1] = event[w][i]
  /\ NoFault(w, i) /\ NoFault(w, i + 1)
  /\ Fetched(w, i).exists
  /\ Fetched(w, i + 1) = Fetched(w, i)
  /\ ProbeFoundNoCurrent(w, i)

C3_Undecodable(w, i) == Fetched(w, i).exists /\ (~pillow \/ Fetched(w, i).body.kind # "image")

(***************************************************************************)
(* C3.  A record whose source was fetched but cannot be decoded as an      *)
(* image (corrupt bytes, or no decoder) is still written: every put made   *)
(* for it carries file_size_bytes and error and none of format, width,     *)
(* height, exif; and when no store call fails and the probe finds no       *)
(* current record the put is made and the message counted.                 *)
(***************************************************************************)
C3_UndecodableRecorded ==
  \A w \in Workers : \A i \in 1..Len(outcome[w]) :
    C3_Undecodable(w, i) =>
      /\ \A n \in 1..Len(PutsOf(w, i)) :
           LET meta == PutsOf(w, i)[n].obj.body.value.obj
           IN  /\ {"file_size_bytes", "error"} \subseteq DOMAIN meta
               /\ DOMAIN meta \cap {"format", "width", "height", "exif"} = {}
      /\ NoFault(w, i) /\ ProbeFoundNoCurrent(w, i) => SuccessfulPut(w, i) /\ Counted(w, i)

(***************************************************************************)
(* C4.  Malformed input is skipped without side effects: for a record      *)
(* whose body is absent, is not JSON, or is a JSON value that does not     *)
(* give both a non-empty bucket and a non-empty key, no store call is      *)
(* made, processed does not grow, and the handler goes on to the next      *)
(* record.                                                                 *)
(***************************************************************************)
C4_MalformedSkipped ==
  \A w \in Workers : \A i \in 1..Len(outcome[w]) :
    ~WellFormed(event[w][i]) =>
      /\ Len(CallsOf(w, i)) = 0
      /\ outcome[w][i].count = CountBefore(w, i)
      /\ ~RaisedAt(w, i)

\* The records that ended in a successful put or in a skip on a matching fingerprint.
C5_CountedRecords(w) == {i \in 1..Len(outcome[w]) : SuccessfulPut(w, i) \/ MatchSkip(w, i)}

\* Every message of the batch is well-formed, its source there, and no store call failed.
C5_Clean(w) == \A i \in 1..Len(event[w]) : WellFormed(event[w][i]) /\ NoFault(w, i) /\ Fetched(w, i).exists

(***************************************************************************)
(* C5.  processed is exactly the number of records that ended in a         *)
(* successful put or in a skip because the existing record's fingerprint   *)
(* matched the fetched source's; it lies between 0 and the batch size; the *)
(* result returns it; and a batch of well-formed messages whose sources    *)
(* exist, with no store failure, returns the batch size.                   *)
(***************************************************************************)
C5_ProcessedCount ==
  \A w \in Workers :
    /\ processed[w] = Cardinality(C5_CountedRecords(w))
    /\ processed[w] >= 0 /\ processed[w] <= Len(event[w])
    /\ pc[w] = "done" =>
         /\ result[w].processed = Cardinality(C5_CountedRecords(w))
         /\ C5_Clean(w) => result[w].processed = Len(event[w])

\* A batch of two returned processed = 1: one record skipped on a matching fingerprint
\* was counted, one whose put failed was not.
C5_Witness ==
  \E w \in Workers :
    /\ pc[w] = "done"
    /\ Len(event[w]) = 2
    /\ result[w].processed = 1
    /\ \E i \in 1..2 : ~SuccessfulPut(w, i) /\ Len(PutsOf(w, i)) = 1
    /\ \E i \in 1..2 : MatchSkip(w, i)

(***************************************************************************)
(* C6.  When the fetch of the source fails, whatever the failure, the      *)
(* record is skipped: no probe and no write are made for it, it is not     *)
(* counted, the source is not fetched again, and the handler goes on to    *)
(* the next record.                                                        *)
(***************************************************************************)
C6_FetchFailureSkips ==
  \A w \in Workers : \A i \in 1..Len(outcome[w]) :
    (Len(CallsOf(w, i)) >= 1 /\ CallsOf(w, i)[1].outcome # "ok") =>
      /\ Len(CallsOf(w, i)) = 1
      /\ outcome[w][i].count = CountBefore(w, i)
      /\ ~RaisedAt(w, i)

\* The probe for record i obtained no record with a fingerprint.
C7_ProbeFailed(w, i) ==
  /\ Probed(w, i)
  /\ \/ ProbeOf(w, i).outcome # "ok"
     \/ ~IsRecord(ProbeOf(w, i).obj)
     \/ "source_etag" \notin DOMAIN ProbeOf(w, i).obj.body.value.obj

(***************************************************************************)
(* C7.  The probe is never a gate: when reading the existing record fails  *)
(* for any reason (not found, permission, no answer, or an object that is  *)
(* no record with a fingerprint), the write is still attempted and the     *)
(* failure does not leave metadata_handler.                                *)
(***************************************************************************)
C7_ProbeNeverGates ==
  \A w \in Workers : \A i \in 1..Len(outcome[w]) :
    C7_ProbeFailed(w, i) => Len(PutsOf(w, i)) = 1 /\ ~RaisedAt(w, i)

\* metadata/<basename(key)>.json, spelled out: the last segment of the key, extension
\* and all, followed by .json, under metadata/.
DerivedKey(key) == << <<"metadata">>, key[Len(key)] \o <<"json">> >>

\* The store calls made for record i: how many, of which kind, and where.
C8_CallsBounded(w, i) ==
  LET cs == CallsOf(w, i)
      m == MsgOf(event[w][i])
      src == <<m.bucket, m.key>>
      der == <<m.bucket, DerivedKey(m.key)>>
      At(n) == <<cs[n].Bucket, cs[n].Key>>
  IN  Len(cs) > 0 =>
        /\ WellFormed(event[w][i])
        /\ src # der
        /\ Cardinality({n \in 1..Len(cs) : cs[n].op = "get" /\ At(n) = src}) <= 1
        /\ Cardinality({n \in 1..Len(cs) : cs[n].op = "get" /\ At(n) = der}) <= 1
        /\ Cardinality({n \in 1..Len(cs) : cs[n].op = "put"}) <= 1
        /\ \A n \in 1..Len(cs) : \/ cs[n].op = "get" /\ At(n) \in {src, der}
                                 \/ cs[n].op = "put" /\ At(n) = der

\* A step changes what the store holds only at the derived key of the record being
\* written (leaving an object there), or is the environment replacing a source.
C8_StoreFrame ==
  \A c \in DOMAIN store :
    store'[c] # store[c] =>
      \/ calls' = calls /\ store[c] = SourceV1 /\ store'[c] = SourceV2
      \/ \E w \in Workers : /\ pc[w] = "write"
                            /\ c = <<MsgOf(event[w][idx[w]]).bucket, DerivedKey(MsgOf(event[w][idx[w]]).key)>>
                            /\ store'[c].exists

(***************************************************************************)
(* C8.  Side effects per record are bounded: at most one read of the       *)
(* source, at most one read of the derived key, at most one put; a put     *)
(* goes to the derived key in the message's own bucket and never to the    *)
(* source key; nothing else is called; and no step of the handler changes  *)
(* what the store holds at any other key.                                  *)
(***************************************************************************)
C8_BoundedEffects ==
  /\ [](\A w \in Workers : \A i \in 1..Len(event[w]) : C8_CallsBounded(w, i))
  /\ [][C8_StoreFrame]_vars

\* A record was handled with its three calls (fetch, probe, put) and its record is stored.
C8_Witness ==
  \E w \in Workers : \E i \in 1..Len(outcome[w]) :
    /\ Len(CallsOf(w, i)) = 3
    /\ SuccessfulPut(w, i)
    /\ store[<<MsgOf(event[w][i]).bucket, DerivedKey(MsgOf(event[w][i]).key)>>] = PutsOf(w, i)[1].obj

\* The record of put c is made of the fields of the source fetch of the same record.
C9_FromOneFetch(c) ==
  LET f == CallsOf(c.w, c.rec)[1]
      meta == c.obj.body.value.obj
  IN  /\ f.op = "get" /\ f.outcome = "ok"
      /\ {"source_bucket", "source_key", "file_size_bytes", "source_etag"} \subseteq DOMAIN meta
      /\ meta.source_etag = Fingerprint(f.obj)
      /\ meta.file_size_bytes = f.obj.body.len
      /\ meta.source_bucket = f.Bucket
      /\ meta.source_key = f.Key

\* Unless a later put replaced it, the store holds what put n sent.
C9_LastPutStored(n) ==
  (\A m \in (n + 1)..Len(calls) : ~(calls[m].op = "put" /\ calls[m].outcome = "ok" /\ calls[m].Bucket = calls[n].Bucket /\ calls[m].Key = calls[n].Key))
    => store[<<calls[n].Bucket, calls[n].Key>>] = calls[n].obj

(***************************************************************************)
(* C9.  Record provenance: every record the worker puts carries the        *)
(* fingerprint returned by the source fetch made for the same record,      *)
(* together with the bucket, key and byte length of that same fetch; and   *)
(* what the store holds at a key the worker wrote is the last record put   *)
(* there.                                                                  *)
(***************************************************************************)
C9_Provenance ==
  \A n \in 1..Len(calls) :
    calls[n].op = "put" =>
      /\ C9_FromOneFetch(calls[n])
      /\ calls[n].outcome = "ok" => C9_LastPutStored(n)

\* A record is put for a source that changed after an older record was written.
C9_Witness ==
  \E n \in 1..Len(calls) :
    /\ calls[n].op = "put" /\ calls[n].outcome = "ok"
    /\ calls[n].obj.body.value.obj.source_etag = Fingerprint(SourceV2)
    /\ IsRecordFor(ProbeOf(calls[n].w, calls[n].rec).obj, Fingerprint(SourceV1))

C11_Decoded(w, i) == pillow /\ Fetched(w, i).exists /\ Fetched(w, i).body.kind = "image"

(***************************************************************************)
(* C11.  Every record the worker puts has file_size_bytes equal to the     *)
(* byte length of the content the source fetch of the same record          *)
(* returned, whether decoding succeeded or not; and when the content was   *)
(* decoded as an image the record also has format, width and height, those *)
(* of the image.                                                           *)
(***************************************************************************)
C11_SizeAndFormat ==
  \A n \in 1..Len(calls) :
    calls[n].op = "put" =>
      LET meta == calls[n].obj.body.value.obj
          f == Fetched(calls[n].w, calls[n].rec)
      IN  /\ f.exists
          /\ "file_size_bytes" \in DOMAIN meta
          /\ meta.file_size_bytes = f.body.len
          /\ C11_Decoded(calls[n].w, calls[n].rec) =>
                /\ {"format", "width", "height"} \subseteq DOMAIN meta
                /\ meta.format = f.body.format /\ meta.width = f.body.width /\ meta.height = f.body.height

\* A record was stored for content that is no image (5 bytes, no format), and one for
\* an image of 69 bytes with its format and size.
C11_Witness ==
  /\ \E n \in 1..Len(calls) :
       /\ calls[n].op = "put" /\ calls[n].outcome = "ok" /\ pillow
       /\ calls[n].obj.body.value.obj.file_size_bytes = 5
       /\ "format" \notin DOMAIN calls[n].obj.body.value.obj
  /\ \E n \in 1..Len(calls) :
       /\ calls[n].op = "put" /\ calls[n].outcome = "ok"
       /\ calls[n].obj.body.value.obj.file_size_bytes = 69
       /\ "format" \in DOMAIN calls[n].obj.body.value.obj

\* Records i and i + 1 are messages for two different source keys of one bucket with the
\* same base name; both were handled to the end, one after the other, and no store call
\* made for them failed.
C12_Collision(w, i) ==
  /\ Handled(w, i + 1) /\ ~RaisedAt(w, i + 1)
  /\ WellFormed(event[w][i]) /\ WellFormed(event[w][i + 1])
  /\ MsgOf(event[w][i]).bucket = MsgOf(event[w][i + 1]).bucket
  /\ MsgOf(event[w][i]).key # MsgOf(event[w][i + 1]).key
  /\ DerivedKey(MsgOf(event[w][i]).key) = DerivedKey(MsgOf(event[w][i + 1]).key)
  /\ NoFault(w, i) /\ NoFault(w, i + 1)
  /\ Fetched(w, i).exists /\ Fetched(w, i + 1).exists

(***************************************************************************)
(* C12.  Key collision is last-writer-wins: two source keys of one bucket  *)
(* with the same base name (incoming/test.png, archive/2024/test.png) map  *)
(* to one metadata key, and after their two messages are handled one after *)
(* the other with no store failure the record at that key describes the    *)
(* source handled last: its source_key is the key of the later message.    *)
(***************************************************************************)
C12_LastWriterWins ==
  \A w \in Workers : \A i \in 1..(Len(outcome[w]) - 1) :
    C12_Collision(w, i) =>
      /\ IsRecord(outcome[w][i + 1].record)
      /\ "source_key" \in DOMAIN outcome[w][i + 1].record.body.value.obj
      /\ outcome[w][i + 1].record.body.value.obj.source_key = MsgOf(event[w][i + 1]).key

\* Record i is the message for incoming/test.png (incoming/<name>.png, as in the test)
\* and its record was put.
C17_Stored(w, i) == WellFormed(event[w][i]) /\ MsgOf(event[w][i]).key = K1 /\ SuccessfulPut(w, i)

C18_Stale(w, i) ==
  /\ Probed(w, i) /\ Fetched(w, i).exists
  /\ IsRecord(ProbeOf(w, i).obj)
  /\ ~IsRecordFor(ProbeOf(w, i).obj, Fingerprint(Fetched(w, i)))

\* The record built from the source fetch made for record i and nothing else.
BuiltFrom(w, i) ==
  LET f == CallsOf(w, i)[1]
      base == [source_bucket |-> f.Bucket, source_key |-> f.Key, file_size_bytes |-> f.obj.body.len, source_etag |-> Fingerprint(f.obj)]
      size == [format |-> "PNG", width |-> 1, height |-> 1]
  IN  IF ~pillow THEN base @@ [error |-> "Pillow not available for image parsing"]
      ELSE IF f.obj.body.kind # "image" THEN base
      ELSE IF f.obj.body.exif = "tags" THEN base @@ size @@ [exif |-> "tags"]
      ELSE base @@ size

(***************************************************************************)
(* C18.  A stale record is replaced, not merged: when the probe finds a    *)
(* record whose fingerprint differs from that of the source just fetched,  *)
(* the worker makes its put, and after a successful put the derived key    *)
(* holds exactly the record built from the current fetch, with no field of *)
(* the previous record; and a record whose probe was answered is left      *)
(* without a put only when the existing record's fingerprint equals the    *)
(* fetched one.                                                            *)
(***************************************************************************)
C18_StaleReplaced ==
  \A w \in Workers : \A i \in 1..Len(outcome[w]) :
    /\ C18_Stale(w, i) =>
          /\ Len(PutsOf(w, i)) = 1
          /\ SuccessfulPut(w, i) =>
                /\ IsRecord(outcome[w][i].record)
                /\ outcome[w][i].record.body.value.obj = BuiltFrom(w, i)
                /\ outcome[w][i].record.ctype = "application/json"
    /\ (Probed(w, i) /\ Len(PutsOf(w, i)) = 0 /\ ~RaisedAt(w, i)) =>
          IsRecordFor(ProbeOf(w, i).obj, Fingerprint(Fetched(w, i)))

\* A stale record that had an error field was replaced by the record of a decoded image,
\* which has none; and a record was found current and left alone.
C18_Witness ==
  /\ \E w \in Workers : \E i \in 1..Len(outcome[w]) :
       /\ C18_Stale(w, i) /\ SuccessfulPut(w, i)
       /\ "error" \in DOMAIN ProbeOf(w, i).obj.body.value.obj
       /\ "error" \notin DOMAIN outcome[w][i].record.body.value.obj
       /\ "format" \in DOMAIN outcome[w][i].record.body.value.obj
  /\ \E w \in Workers : \E i \in 1..Len(outcome[w]) : MatchSkip(w, i)

\* The first probe of the run, which no put precedes: it tells what the derived key held
\* before any invocation wrote.
C13_FirstProbe == calls[CHOOSE n \in 1..Len(calls) : calls[n].Key[1] = <<"metadata">> /\ \A k \in 1..(n - 1) : calls[k].Key[1] # <<"metadata">>]

\* What one invocation handling the message alone leaves at the derived key: the record
\* that was there when it is current, else the record built from the fetch.
C13_Alone(w) ==
  IF IsRecordFor(C13_FirstProbe.obj, Fingerprint(Fetched(w, 1)))
  THEN C13_FirstProbe.obj
  ELSE [exists |-> TRUE, body |-> [kind |-> "json", value |-> [type |-> "object", obj |-> BuiltFrom(w, 1)]], etag |-> <<Q, "m", Q>>, ctype |-> "application/json"]

\* Both invocations handled the same message to the end and returned, no store call
\* failed, and both fetched the same source object.
C13_BothDone ==
  /\ \A w \in Workers : pc[w] = "done" /\ Len(event[w]) = 1 /\ NoFault(w, 1) /\ Fetched(w, 1).exists
  /\ event["w1"] = event["w2"]
  /\ Fetched("w1", 1) = Fetched("w2", 1)

(***************************************************************************)
(* C13.  The check-then-write race is benign: when two invocations handle  *)
(* the same message at once against an unchanged source, then whatever the *)
(* interleaving of their fetch, probe and write steps each makes at most   *)
(* one put, and once both have returned (no store call having failed) the  *)
(* record at the derived key is the one a single invocation handling the   *)
(* message alone would have left there, and both counted the message.      *)
(***************************************************************************)
C13_BenignRace ==
  /\ \A w \in Workers : \A i \in 1..Len(event[w]) : Len(PutsOf(w, i)) <= 1
  /\ C13_BothDone =>
        LET m == MsgOf(event["w1"][1])
        IN  /\ store[<<m.bucket, DerivedKey(m.key)>>] = C13_Alone("w1")
            /\ \A w \in Workers : result[w].processed = 1

\* Both invocations probed before either wrote, both wrote, and the record is the one
\* either would have written alone.
C13_Witness ==
  /\ C13_BothDone
  /\ \A w \in Workers : SuccessfulPut(w, 1)
  /\ store[<<MsgOf(event["w1"][1]).bucket, DerivedKey(MsgOf(event["w1"][1]).key)>>] = PutsOf("w1", 1)[1].obj
  /\ PutsOf("w1", 1)[1].obj = PutsOf("w2", 1)[1].obj

\* incoming/test.png of bucket b1 was overwritten (version v1 by v2); each of the two
\* invocations handled one of the two messages the two versions gave rise to and
\* returned, no store call failed, and the one whose message came with v2 fetched v2.
C19_BothVersionsHandled ==
  /\ \A w \in Workers : pc[w] = "done" /\ event[w] = <<Message("b1", K1)>> /\ NoFault(w, 1)
  /\ store[<<"b1", K1>>] = SourceV2
  /\ \E w \in Workers : Fetched(w, 1) = SourceV2

(***************************************************************************)
(* C19.  The record converges to the latest source version: when a source  *)
(* is overwritten from v1 to v2, one message is delivered per version and  *)
(* the invocations handling them may run at once, then once both messages  *)
(* have been processed with no store failure the record at the derived key *)
(* carries the fingerprint of v2, whatever the interleaving of the fetch,  *)
(* probe and write steps.                                                  *)
(***************************************************************************)
C19_Converges ==
  C19_BothVersionsHandled => IsRecordFor(store[<<"b1", DerivedKey(K1)>>], Fingerprint(SourceV2))

\* The put made for record i failed.
C14_PutFailed(w, i) == Len(PutsOf(w, i)) = 1 /\ ~SuccessfulPut(w, i)

\* A step that is a failed put leaves the store as it was.
C14_FailedPutFrame == (calls' # calls /\ Len(calls') > 0 /\ calls'[Len(calls')].op = "put" /\ calls'[Len(calls')].outcome # "ok") => store' = store

\* No store call of the delivery under way has failed so far, up to the last one made.
C14_LastCallOk == Len(calls) = 0 \/ calls[Len(calls)].fault = "none"

\* The derived key of incoming/test.png holds a record with the fingerprint of the source.
C14_RecordCurrent == IsRecordFor(store[<<"b1", DerivedKey(K1)>>], Fingerprint(store[<<"b1", K1>>]))

(***************************************************************************)
(* C14.  A write failure loses the record for the current invocation only: *)
(* when put_object fails the message is not counted, the store is left as  *)
(* it was and the handler goes on; and if the queue delivers the message   *)
(* again until it is counted, and store calls fail only finitely often,    *)
(* then eventually the derived key holds a record with the fingerprint of  *)
(* the source.                                                             *)
(***************************************************************************)
C14_LostOnlyOnce ==
  /\ [](\A w \in Workers : \A i \in 1..Len(outcome[w]) :
         C14_PutFailed(w, i) => outcome[w][i].count = CountBefore(w, i) /\ ~RaisedAt(w, i))
  /\ [][C14_FailedPutFrame]_vars
  /\ (<>[]C14_LastCallOk) => <>C14_RecordCurrent

\* Record i of the batch given to ingest_handler has both a bucket and a key.
HasBucketAndKey(i) == LET rec == ingest.event[i] IN
  /\ "s3" \in DOMAIN rec /\ rec.s3.type = "object"
  /\ "bucket" \in DOMAIN rec.s3.obj /\ "name" \in DOMAIN rec.s3.obj.bucket /\ rec.s3.obj.bucket.name # ""
  /\ "object" \in DOMAIN rec.s3.obj /\ "key" \in DOMAIN rec.s3.obj.object /\ rec.s3.obj.object.key # EmptyKey

\* The calls of send_message made for record i.
SendsFor(i) == SelectSeq(sends, LAMBDA c : c.rec = i)

\* The message {bucket, key} of record i, the key without its URL escapes.
ExpectedMessage(i) ==
  LET bucket == ingest.event[i].s3.obj.bucket.name
      raw == ingest.event[i].s3.obj.object.key
      key == IF raw = << <<"incoming">>, <<"my+photo", "png">> >> THEN << <<"incoming">>, <<"my photo", "png">> >> ELSE raw
  IN  [kind |-> "json", value |-> [type |-> "object", obj |-> [bucket |-> bucket, key |-> key]]]

\* One send_message call, with the queue URL and the message of the record, for each
\* record that has bucket and key, and none for the others.
C15_OneSendEach ==
  \A i \in 1..Len(ingest.event) :
    IF HasBucketAndKey(i)
    THEN /\ Len(SendsFor(i)) = 1
         /\ SendsFor(i)[1].MessageBody = ExpectedMessage(i)
         /\ SendsFor(i)[1].QueueUrl = ingest.queue_url /\ ingest.queue_url # ""
    ELSE Len(SendsFor(i)) = 0

C16_NothingConfigured ==
  /\ environ.METADATA_QUEUE_URL = "" /\ environ.SQS_QUEUE_URL = ""
  /\ environ.METADATA_QUEUE_NAME = "" /\ environ.SQS_QUEUE_NAME = ""

RecordWrites == SelectSeq(calls, LAMBDA c : c.op = "put" /\ c.outcome = "ok")

(***************************************************************************)
(* C20.  The pipeline quiesces: with every object created in the bucket,   *)
(* the records the worker writes under metadata/ included, notified and    *)
(* forwarded to the queue, one uploaded source object causes finitely many *)
(* record writes, the worker's own output generating no new work: the      *)
(* writes the upload causes stay below the length of the longest chain of  *)
(* records the store has keys for, and no message names a record the       *)
(* worker wrote when that chain is at its end.                             *)
(***************************************************************************)
C20_Quiesces == Len(RecordWrites) < MaxDepth

====
